---- MODULE Spec2Model ----
(***************************************************************************)
(* Model of scripts/claude_usage_stats.py: a sequential reporting script   *)
(* that shells out to the `claude` CLI, parses its JSON, falls back from   *)
(* structured stats to raw logs to zeros, and prints a usage report.       *)
(*                                                                         *)
(* Time is counted in whole hours.  Python values are tagged records, so   *)
(* that the dynamic type errors of the script (TypeError, AttributeError,  *)
(* KeyError, ValueError) are outcomes of the model and not evaluation      *)
(* errors of TLC.                                                          *)
(***************************************************************************)
EXTENDS Integers, Sequences, FiniteSets, TLC

(***************************************************************************)
(* Bounds of the model.                                                    *)
(***************************************************************************)
\* longest log listing the external tool returns to one fetch
MaxLogs == 2
\* longest log listing in a whole run of main
MaxMainLogs == 1
\* largest token count given to calculate_cost on its own
MaxTokens == 3

(***************************************************************************)
(* IEEE-754 binary64 arithmetic, as Python's float does it: every          *)
(* operation returns the exact result rounded to 53 significant bits,      *)
(* ties to even.  Naturals wider than the integers of TLC are              *)
(* little-endian sequences of limbs in base 2^12 without leading zeros.    *)
(***************************************************************************)
LimbBits == 12 + 0
Base == 2^LimbBits

RECURSIVE IntToBig(_)
IntToBig(n) == IF n = 0 THEN <<>> ELSE <<n % Base>> \o IntToBig(n \div Base)

RECURSIVE Strip(_)
Strip(x) ==
    IF Len(x) = 0 THEN x
    ELSE IF x[Len(x)] = 0 THEN Strip(SubSeq(x, 1, Len(x) - 1)) ELSE x

Limb(x, i) == IF i <= Len(x) THEN x[i] ELSE 0

RECURSIVE BigAddC(_, _, _, _)
BigAddC(x, y, i, carry) ==
    IF i > Len(x) /\ i > Len(y)
    THEN (IF carry = 0 THEN <<>> ELSE <<carry>>)
    ELSE LET s == Limb(x, i) + Limb(y, i) + carry
         IN  <<s % Base>> \o BigAddC(x, y, i + 1, s \div Base)

BigAdd(x, y) == BigAddC(x, y, 1, 0)

RECURSIVE BigSubC(_, _, _, _)
\* x - y for x >= y
BigSubC(x, y, i, borrow) ==
    IF i > Len(x) THEN <<>>
    ELSE LET s == Limb(x, i) - Limb(y, i) - borrow
         IN  IF s < 0 THEN <<s + Base>> \o BigSubC(x, y, i + 1, 1)
                      ELSE <<s>> \o BigSubC(x, y, i + 1, 0)

BigSub(x, y) == Strip(BigSubC(x, y, 1, 0))

RECURSIVE BigCmpFrom(_, _, _)
BigCmpFrom(x, y, i) ==
    IF i = 0 THEN 0
    ELSE IF x[i] < y[i] THEN -1
    ELSE IF x[i] > y[i] THEN 1
    ELSE BigCmpFrom(x, y, i - 1)

\* -1, 0, 1 as x <, =, > y
BigCmp(x, y) ==
    IF Len(x) < Len(y) THEN -1
    ELSE IF Len(x) > Len(y) THEN 1
    ELSE BigCmpFrom(x, y, Len(x))

RECURSIVE MulSmallC(_, _, _, _)
MulSmallC(x, s, i, carry) ==
    IF i > Len(x)
    THEN (IF carry = 0 THEN <<>> ELSE <<carry>>)
    ELSE LET p == x[i] * s + carry
         IN  <<p % Base>> \o MulSmallC(x, s, i + 1, p \div Base)

\* x * s for 0 <= s < Base
MulSmall(x, s) == IF s = 0 THEN <<>> ELSE MulSmallC(x, s, 1, 0)

RECURSIVE DivSmallC(_, _, _, _)
\* from the top limb down: [q |-> limbs of the quotient, r |-> remainder]
DivSmallC(x, s, i, rem) ==
    IF i = 0 THEN [q |-> <<>>, r |-> rem]
    ELSE LET cur  == rem * Base + x[i]
             rest == DivSmallC(x, s, i - 1, cur % s)
         IN  [q |-> rest.q \o <<cur \div s>>, r |-> rest.r]

\* x divided by s, 0 < s <= Base
DivSmall(x, s) ==
    LET d == DivSmallC(x, s, Len(x), 0) IN [q |-> Strip(d.q), r |-> d.r]

Zeros(k) == [i \in 1..k |-> 0]

\* x * 2^k
Shl(x, k) ==
    IF Len(x) = 0 THEN x
    ELSE Zeros(k \div LimbBits) \o MulSmall(x, 2^(k % LimbBits))

\* floor(x / 2^k)
Shr(x, k) ==
    IF k \div LimbBits >= Len(x) THEN <<>>
    ELSE DivSmall(SubSeq(x, (k \div LimbBits) + 1, Len(x)), 2^(k % LimbBits)).q

RECURSIVE BigMulFrom(_, _, _)
BigMulFrom(x, y, i) ==
    IF i > Len(y) THEN <<>>
    ELSE BigAdd(Zeros(i - 1) \o MulSmall(x, y[i]), BigMulFrom(x, y, i + 1))

BigMul(x, y) == Strip(BigMulFrom(x, y, 1))

RECURSIVE SmallBits(_)
SmallBits(n) == IF n = 0 THEN 0 ELSE 1 + SmallBits(n \div 2)

\* number of significant bits of x
BitLen(x) ==
    IF Len(x) = 0 THEN 0 ELSE LimbBits * (Len(x) - 1) + SmallBits(x[Len(x)])

IsOdd(x) == Len(x) > 0 /\ x[1] % 2 = 1

\* significant bits of a binary64
Precision == 52 + 1

FZero == [t |-> "float", m |-> <<>>, e |-> 0]

\* F of the value of a, and of the values of a and b: the operands are
\* evaluated once (call by value)
Bind(a, F(_)) == CHOOSE r \in { F(v) : v \in {a} } : TRUE
ByValue(a, b, F(_, _)) == CHOOSE r \in { F(v, w) : v \in {a}, w \in {b} } : TRUE

\* the binary64 nearest to n * 2^e (n > 0 exact), ties to even
RoundBits(n, e) ==
    LET len == BitLen(n) IN
    IF len = 0 THEN FZero
    ELSE IF len <= Precision
    THEN [t |-> "float", m |-> Shl(n, Precision - len), e |-> e - (Precision - len)]
    ELSE LET s    == len - Precision
             q    == Shr(n, s)
             rem  == BigSub(n, Shl(q, s))
             half == Shl(<<1>>, s - 1)
             c    == BigCmp(rem, half)
             up   == c = 1 \/ (c = 0 /\ IsOdd(q))
             m    == IF up THEN BigAdd(q, <<1>>) ELSE q
         IN  IF BitLen(m) > Precision
             THEN [t |-> "float", m |-> Shr(m, 1), e |-> e + s + 1]
             ELSE [t |-> "float", m |-> m, e |-> e + s]

Round(n, e) == ByValue(n, e, RoundBits)

\* guard bits kept by the integer quotient before rounding
DivShift == 6 * LimbBits + 4

\* float(p) / float(q) for integers p >= 0, 0 < q < Base: the quotient is
\* cut after DivShift fraction bits and a sticky bit records the remainder
FDivInt(p, q) ==
    IF p = 0 THEN FZero
    ELSE LET d == DivSmall(Shl(IntToBig(p), DivShift), q)
             n == BigAdd(MulSmall(d.q, 2), IF d.r = 0 THEN <<>> ELSE <<1>>)
         IN  Round(n, 0 - (DivShift + 1))

FMulExact(x, y) ==
    IF Len(x.m) = 0 \/ Len(y.m) = 0 THEN FZero
    ELSE Round(BigMul(x.m, y.m), x.e + y.e)

\* x * y
FMul(x, y) == ByValue(x, y, FMulExact)

FMin(a, b) == IF a < b THEN a ELSE b

FAddExact(x, y) ==
    IF Len(x.m) = 0 THEN y
    ELSE IF Len(y.m) = 0 THEN x
    ELSE LET e == FMin(x.e, y.e)
         IN  Round(BigAdd(Shl(x.m, x.e - e), Shl(y.m, y.e - e)), e)

\* x + y
FAdd(x, y) == ByValue(x, y, FAddExact)

\* COST_PER_1K_INPUT_TOKENS = 0.03: a decimal literal denotes the nearest binary64
COST_PER_1K_INPUT_TOKENS == FDivInt(3, 100)
\* COST_PER_1K_OUTPUT_TOKENS = 0.15
COST_PER_1K_OUTPUT_TOKENS == FDivInt(15, 100)

\* calculate_cost with the input rate added to the thousands of input tokens
\* where line 145 multiplies it
calculate_cost_added(input_tokens, output_tokens) ==
    LET input_cost  == FAdd(FDivInt(input_tokens, 1000), COST_PER_1K_INPUT_TOKENS)
        output_cost == FMul(FDivInt(output_tokens, 1000), COST_PER_1K_OUTPUT_TOKENS)
    IN  FAdd(input_cost, output_cost)

\* def calculate_cost(input_tokens, output_tokens) -> float
calculate_cost(input_tokens, output_tokens) ==
    LET input_cost  == FMul(FDivInt(input_tokens, 1000), COST_PER_1K_INPUT_TOKENS)
        output_cost == FMul(FDivInt(output_tokens, 1000), COST_PER_1K_OUTPUT_TOKENS)
    IN  FAdd(input_cost, output_cost)

\* def format_cost(cost): f"${cost:.2f}", here the amount in cents: the exact
\* binary value m * 2^e times 100, rounded to an integer, ties to even
Cents(m, e) ==
    IF Len(m) = 0 THEN <<>>
    ELSE LET n == MulSmall(m, 100) IN
         IF e >= 0 THEN Shl(n, e)
         ELSE LET s    == 0 - e
                  q    == Shr(n, s)
                  rem  == BigSub(n, Shl(q, s))
                  half == Shl(<<1>>, s - 1)
                  c    == BigCmp(rem, half)
              IN  IF c = 1 \/ (c = 0 /\ IsOdd(q)) THEN BigAdd(q, <<1>>) ELSE q

format_cost(cost) == ByValue(cost.m, cost.e, Cents)

(***************************************************************************)
(* Python and JSON values.                                                 *)
(***************************************************************************)
Null == [t |-> "null"]
Num(n) == [t |-> "num", n |-> n]
\* a string that is no ISO-8601 timestamp; Fmt(s, n) is s formatted with n
Fmt(s, n) == [t |-> "str", form |-> "text", text |-> s, n |-> n]
Text(s) == Fmt(s, 0)
\* an ISO-8601 timestamp string: form "naive" (no zone), "z" (trailing Z)
\* or "offset" (+hh:mm), of the instant `at`
Iso(form, at) == [t |-> "str", form |-> form, at |-> at]
Obj(d) == [t |-> "obj", d |-> d]
List(xs) == [t |-> "list", xs |-> xs]
EmptyDict == [k \in {} |-> Null]

Has(d, k) == k \in DOMAIN d
Get(d, k, dflt) == IF k \in DOMAIN d THEN d[k] ELSE dflt
Put(d, k, v) == [key \in (DOMAIN d) \cup {k} |-> IF key = k THEN v ELSE d[key]]

\* bool(v)
Truthy(v) ==
    CASE v.t = "null" -> FALSE
      [] v.t = "num"  -> v.n # 0
      [] v.t = "str"  -> ~(v.form = "text" /\ v.text = "")
      [] v.t = "obj"  -> DOMAIN v.d # {}
      [] v.t = "list" -> Len(v.xs) > 0
      [] OTHER        -> TRUE

\* datetime objects: naive, or aware of a UTC offset
DateTime(aware, at) == [t |-> "datetime", aware |-> aware, at |-> at]
NoTime == [t |-> "none"]

\* datetime.isoformat()
isoformat(dt) == Iso(IF dt.aware THEN "offset" ELSE "naive", dt.at)

\* datetime.fromisoformat(v.replace("Z", "")): [exc, dt]
fromisoformat(v) ==
    IF v.t # "str" THEN [exc |-> "AttributeError", dt |-> NoTime]
    ELSE IF v.form = "text" THEN [exc |-> "ValueError", dt |-> NoTime]
    ELSE [exc |-> "none", dt |-> DateTime(v.form = "offset", v.at)]

HoursPerDay == 24
\* datetime.strftime("%Y-%m-%d")
Date(at) == at \div HoursPerDay

(***************************************************************************)
(* The environment: the clock, the external tool's replies, the log store  *)
(* and the configuration files.                                            *)
(***************************************************************************)
\* datetime.now(): hour `t` with its calendar weekday (Monday = 0) and day of month
NowChoices ==
    { [t |-> 40 * HoursPerDay + 5, weekday |-> 2, day |-> 17],
      [t |-> 40 * HoursPerDay,     weekday |-> 0, day |-> 1] }

Dict2(k1, v1, k2, v2) == (k1 :> v1) @@ (k2 :> v2)
Tokens == Obj(Dict2("prompt", Num(1), "completion", Num(2)))
Entry(ts) == Obj(Dict2("timestamp", ts, "tokens", Tokens))

\* log entries the external tool may list, around the hour T
EntryChoices(T) ==
    { Entry(Iso("naive", T - HoursPerDay - 1)),
      Entry(Iso("naive", T - HoursPerDay)),
      Entry(Iso("naive", T)),
      Entry(Iso("naive", T + 1)),
      Entry(Iso("z", T - 1)),
      Entry(Iso("offset", T - 1)),
      Entry(Text("yesterday")),
      Entry(Num(1700000000)),
      Obj("tokens" :> Tokens),
      Obj("timestamp" :> Iso("naive", T - 1)),
      Num(7),
      Text("entry") }

SeqsUpTo(S, n) == UNION { [1..k -> S] : k \in 0..n }

StatsDoc(i, o) == Dict2("input_tokens", Num(i), "output_tokens", Num(o))

\* JSON documents the structured stats query may print
StatsReplies(T) ==
    { Obj(Put(StatsDoc(3, 4), "total_tokens", Num(7))),
      Obj(Put(StatsDoc(3, 4), "total_tokens", Num(9))),
      Obj(StatsDoc(3, 4)),
      Obj("output_tokens" :> Num(4)),
      Obj(Put(Put(StatsDoc(3, 4), "total_tokens", Num(7)),
              "session_start", Iso("z", T - 2))),
      List(<<>>) }

Secret == Text("secret")
Mask == Text("********")

\* contents of a configuration file that parses as JSON
ConfigDocs ==
    { Obj("api_key" :> Secret),
      Obj("model" :> Text("opus")),
      Obj(Dict2("api_key", Secret, "profile", Obj("api_key" :> Secret))),
      Obj("profile" :> Obj("api_key" :> Secret)),
      List(<<Obj("api_key" :> Secret)>>),
      List(<<Text("api_key")>>) }

\* a configuration file: absent, unparseable, or a JSON document
ConfigFiles ==
    {[state |-> "missing"], [state |-> "garbage"]}
        \cup { [state |-> "json", doc |-> d] : d \in ConfigDocs }

(***************************************************************************)
(* Commands given to run_command, and what it returns.                     *)
(***************************************************************************)
DAILY_LOG_LIMIT == 100
WEEKLY_LOG_LIMIT == 500
MONTHLY_LOG_LIMIT == 1000
SESSION_LOG_LIMIT == 50

NoCmd == [sub |-> "none"]
VersionCmd == [sub |-> "version"]
SessionStatsCmd == [sub |-> "stats", scope |-> "session"]
PeriodStatsCmd(period) == [sub |-> "stats", scope |-> "period", period |-> period]
RangeStatsCmd(start_str, end_str) ==
    [sub |-> "stats", scope |-> "range", from |-> start_str, to |-> end_str]
LogsCmd(limit) == [sub |-> "logs", limit |-> limit]

Garbage == [kind |-> "garbage"]
ErrorText == [kind |-> "error"]
Json(doc) == [kind |-> "json", doc |-> doc]
NoRet == [out |-> [kind |-> "none"], success |-> FALSE]

\* how a process may go: it cannot be started, exits non-zero, or exits with
\* status 0 after printing `out`
NotFound == [how |-> "notfound", out |-> ErrorText]
NonZero == [how |-> "nonzero", out |-> ErrorText]
Exit0(out) == [how |-> "exit0", out |-> out]

\* the ways a structured stats query may go when the executable starts
StatsOutcomes(T) ==
    {NonZero, Exit0(Garbage)} \cup { Exit0(Json(d)) : d \in StatsReplies(T) }

\* the ways a log listing of at most n entries may go when the executable starts
LogsOutcomes(T, n) ==
    {NonZero, Exit0(Garbage)}
        \cup { Exit0(Json(List(xs))) : xs \in SeqsUpTo(EntryChoices(T), n) }

\* --limit N: the listing holds at most N entries
Limited(o, limit) ==
    IF o.out.kind = "json" /\ Len(o.out.doc.xs) > limit
    THEN Exit0(Json(List(SubSeq(o.out.doc.xs, 1, limit))))
    ELSE o

\* the condition of the external tool: "flaky" (every invocation may go any
\* way), "absent" (no executable), or "fixed" (every stats query goes the way
\* tool.stats and every log listing the way tool.logs)
Flaky == [mode |-> "flaky"]
Absent == [mode |-> "absent"]
Fixed(stats, logs) == [mode |-> "fixed", stats |-> stats, logs |-> logs]

\* the ways the process started for command c may go
Outcomes(tl, c, T) ==
    CASE tl.mode = "absent" -> {NotFound}
      [] tl.mode = "fixed" ->
           (CASE c.sub = "stats" -> {tl.stats}
              [] c.sub = "logs"  -> {Limited(tl.logs, c.limit)}
              [] OTHER           -> {Exit0(Garbage)})
      [] OTHER ->
           {NotFound} \cup
           (CASE c.sub = "stats" -> StatsOutcomes(T)
              [] c.sub = "logs"  ->
                   { Limited(o, c.limit) : o \in LogsOutcomes(T, MaxLogs) }
              [] OTHER           -> {NonZero, Exit0(Garbage)})

\* def run_command(command): only subprocess.CalledProcessError is caught.
\* `how` is how the process went: "exit0", "nonzero", or "notfound" when the
\* executable cannot be started (subprocess.run raises FileNotFoundError)
run_command(how, stdout) ==
    CASE how = "exit0"   -> [exc |-> "none", out |-> stdout, success |-> TRUE]
      [] how = "nonzero" -> [exc |-> "none", out |-> ErrorText, success |-> FALSE]
      [] OTHER           -> [exc |-> "FileNotFoundError", out |-> NoRet.out,
                             success |-> FALSE]

(***************************************************************************)
(* get_current_session_stats                                               *)
(***************************************************************************)
Return(v) == [kind |-> "return", value |-> v, exc |-> "none"]
Raise(e) == [kind |-> "raise", value |-> Null, exc |-> e]
FallThrough == [kind |-> "next", value |-> Null, exc |-> "none"]

\* lines 82-90: the structured stats of the session
SessionFromStats(r, nw) ==
    IF ~r.success \/ r.out.kind # "json" THEN FallThrough
    ELSE LET stats == r.out.doc IN
         CASE stats.t = "obj" ->
                IF Has(stats.d, "session_start") THEN Return(stats)
                ELSE Return(Obj(Put(stats.d, "session_start",
                                    isoformat(DateTime(FALSE, nw.t - 1)))))
           [] stats.t = "list" ->
                IF \E k \in 1..Len(stats.xs) : stats.xs[k] = Text("session_start")
                THEN Return(stats)
                ELSE Raise("TypeError")
           [] OTHER -> Raise("TypeError")

\* lines 105-107 and 255-257: the two += of one entry's token counts
AddTokens(d, i, o) ==
    IF ~Has(d, "tokens") THEN [i |-> i, o |-> o, exc |-> "none"]
    ELSE LET tok == d["tokens"] IN
         IF tok.t # "obj" THEN [i |-> i, o |-> o, exc |-> "AttributeError"]
         ELSE LET p == Get(tok.d, "prompt", Num(0))
                  c == Get(tok.d, "completion", Num(0))
              IN  IF p.t # "num" THEN [i |-> i, o |-> o, exc |-> "TypeError"]
                  ELSE IF c.t # "num"
                  THEN [i |-> i + p.n, o |-> o, exc |-> "TypeError"]
                  ELSE [i |-> i + p.n, o |-> o + c.n, exc |-> "none"]

\* lines 110-119: first_timestamp and last_timestamp after one entry
TrackTimestamps(acc, dt) ==
    IF acc.first.t = "none"
    THEN [acc EXCEPT !.first = dt, !.last = dt]
    ELSE IF acc.first.aware # dt.aware
    THEN acc    \* TypeError of the comparison, caught at line 118
    ELSE [acc EXCEPT !.first = IF dt.at < acc.first.at THEN dt ELSE acc.first,
                     !.last  = IF dt.at > acc.last.at THEN dt ELSE acc.last]

\* lines 105-119: the body of the loop for one entry
SessionEntry(acc, entry) ==
    IF entry.t \in {"num", "null"} THEN [acc EXCEPT !.exc = "TypeError"]
    ELSE IF entry.t # "obj" THEN [acc EXCEPT !.exc = "AttributeError"]
    ELSE LET a  == AddTokens(entry.d, acc.i, acc.o)
             b  == [acc EXCEPT !.i = a.i, !.o = a.o, !.exc = a.exc]
             ts == Get(entry.d, "timestamp", Null)
         IN  IF a.exc # "none" \/ ~Truthy(ts) THEN b
             ELSE LET p == fromisoformat(ts) IN
                  CASE p.exc = "none"       -> TrackTimestamps(b, p.dt)
                    [] p.exc = "ValueError" -> b
                    [] OTHER                -> [b EXCEPT !.exc = p.exc]

RECURSIVE SessionLoop(_, _, _)
\* lines 104-119: for entry in logs
SessionLoop(logs, k, acc) ==
    IF k > Len(logs) \/ acc.exc # "none" THEN acc
    ELSE Bind(SessionEntry(acc, logs[k]), LAMBDA a : SessionLoop(logs, k + 1, a))

\* lines 121-130: what the loop's outcome makes of the session's stats
SessionAfterLoop(acc, nw) ==
    CASE acc.exc = "none" ->
           Return(Obj(Put(Put(StatsDoc(acc.i, acc.o), "total_tokens",
                              Num(acc.i + acc.o)),
                          "session_start",
                          IF acc.first.t = "none"
                          THEN isoformat(DateTime(FALSE, nw.t))
                          ELSE isoformat(acc.first))))
      [] acc.exc = "AttributeError" -> FallThrough
      [] OTHER -> Raise(acc.exc)

\* lines 95-130: the session's stats built from the log listing
SessionFromLogs(r, nw) ==
    IF ~r.success \/ r.out.kind # "json" THEN FallThrough
    ELSE LET logs == r.out.doc IN
         IF logs.t \in {"num", "null"} THEN Raise("TypeError")
         ELSE IF logs.t # "list" /\ Truthy(logs) THEN FallThrough
         ELSE Bind(SessionLoop(IF logs.t = "list" THEN logs.xs ELSE <<>>, 1,
                               [i |-> 0, o |-> 0, first |-> NoTime,
                                last |-> NoTime, exc |-> "none"]),
                   LAMBDA acc : SessionAfterLoop(acc, nw))

\* the empty stats without the timedelta(hours=1) of line 134
SessionDefault_now(nw) ==
    Obj(Put(Put(StatsDoc(0, 0), "total_tokens", Num(0)),
            "session_start", isoformat(DateTime(FALSE, nw.t))))

\* lines 132-140: empty stats as a last resort
SessionDefault(nw) ==
    Obj(Put(Put(StatsDoc(0, 0), "total_tokens", Num(0)),
            "session_start", isoformat(DateTime(FALSE, nw.t - 1))))

(***************************************************************************)
(* get_time_period_stats                                                   *)
(***************************************************************************)
DirectPeriods == {Text("daily"), Text("weekly"), Text("monthly")}

\* lines 169-186: [start_time, end_time]; an argument not given is NoTime
PeriodWindow(period, start_arg, end_arg, nw) ==
    LET midnight == nw.t - (nw.t % HoursPerDay) IN
    [end_time   |-> IF end_arg.t = "none" THEN nw.t ELSE end_arg.at,
     start_time |->
        IF start_arg.t # "none" THEN start_arg.at
        ELSE CASE period = Text("daily")   -> midnight
               [] period = Text("weekly")  -> midnight - nw.weekday * HoursPerDay
               [] period = Text("monthly") -> midnight - (nw.day - 1) * HoursPerDay
               [] OTHER                    -> nw.t - HoursPerDay]

\* the structured stats without the `return stats` of lines 204 and 219
PeriodFromStats_unreturned(r, f) ==
    IF ~r.success \/ r.out.kind # "json" THEN FallThrough
    ELSE IF r.out.doc.t # "obj" THEN Raise("TypeError")
    ELSE FallThrough

\* lines 198-204 and 213-219: structured stats with the derived fields filled in
PeriodFromStats(r, f) ==
    IF ~r.success \/ r.out.kind # "json" THEN FallThrough
    ELSE LET stats == r.out.doc IN
         IF stats.t # "obj" THEN Raise("TypeError")
         ELSE LET i == Get(stats.d, "input_tokens", Num(0))
                  o == Get(stats.d, "output_tokens", Num(0))
                  d1 == Put(stats.d, "period", f.period)
                  d2 == Put(d1, "start_time", isoformat(DateTime(FALSE, f.start_time)))
                  d3 == Put(d2, "end_time", isoformat(DateTime(FALSE, f.end_time)))
              IN  IF i.t # "num" \/ o.t # "num" THEN Raise("TypeError")
                  ELSE Return(Obj(Put(Put(d3, "total_tokens", Num(i.n + o.n)),
                                      "cost", calculate_cost(i.n, o.n))))

\* lines 228-235
LogLimit(period) ==
    CASE period = Text("monthly") -> MONTHLY_LOG_LIMIT
      [] period = Text("weekly")  -> WEEKLY_LOG_LIMIT
      [] period = Text("daily")   -> DAILY_LOG_LIMIT
      [] OTHER                    -> SESSION_LOG_LIMIT

\* line 251: if entry_time < start_time or entry_time > end_time: continue
OutsideWindow(entry_time, start_time, end_time) ==
    entry_time < start_time \/ entry_time > end_time

\* lines 245-259: the body of the loop for one entry
PeriodEntry(acc, entry, f) ==
    IF entry.t # "obj" THEN [acc EXCEPT !.exc = "AttributeError"]
    ELSE LET ts == Get(entry.d, "timestamp", Null) IN
         IF ~Truthy(ts) THEN acc
         ELSE LET p == fromisoformat(ts) IN
              CASE p.exc = "ValueError" -> acc
                [] p.exc # "none"       -> [acc EXCEPT !.exc = p.exc]
                [] p.dt.aware           -> acc   \* TypeError of line 251, caught
                [] OutsideWindow(p.dt.at, f.start_time, f.end_time) -> acc
                [] OTHER ->
                     LET a == AddTokens(entry.d, acc.i, acc.o) IN
                     [acc EXCEPT !.i = a.i, !.o = a.o,
                                 !.exc = IF a.exc = "TypeError" THEN "none" ELSE a.exc]

RECURSIVE PeriodLoop(_, _, _, _)
\* lines 243-259: for entry in logs
PeriodLoop(logs, k, acc, f) ==
    IF k > Len(logs) \/ acc.exc # "none" THEN acc
    ELSE Bind(PeriodEntry(acc, logs[k], f), LAMBDA a : PeriodLoop(logs, k + 1, a, f))

\* lines 264-274
PeriodDict(f, i, o) ==
    Obj(("period" :> f.period) @@ StatsDoc(i, o)
        @@ ("total_tokens" :> Num(i + o))
        @@ ("cost" :> calculate_cost(i, o))
        @@ ("start_time" :> isoformat(DateTime(FALSE, f.start_time)))
        @@ ("end_time" :> isoformat(DateTime(FALSE, f.end_time))))

\* lines 239-274: the period's stats built from the log listing, or zeros
PeriodFromLogs(r, f) ==
    IF ~r.success \/ r.out.kind # "json" THEN Return(PeriodDict(f, 0, 0))
    ELSE LET logs == r.out.doc IN
         IF logs.t \in {"num", "null"} THEN Raise("TypeError")
         ELSE IF logs.t # "list" /\ Truthy(logs) THEN Raise("AttributeError")
         ELSE Bind(PeriodLoop(IF logs.t = "list" THEN logs.xs ELSE <<>>, 1,
                              [i |-> 0, o |-> 0, exc |-> "none"], f),
                   LAMBDA acc : IF acc.exc = "none"
                                THEN Return(PeriodDict(f, acc.i, acc.o))
                                ELSE Raise(acc.exc))

(***************************************************************************)
(* print_usage_report and the verbose block of main                        *)
(***************************************************************************)
\* str.capitalize()
Capitalize(label) ==
    Fmt(CASE label.text = "daily"   -> "Daily"
          [] label.text = "weekly"  -> "Weekly"
          [] label.text = "monthly" -> "Monthly"
          [] label.text = "session" -> "Session"
          [] OTHER                  -> "Last %d days",
        label.n)

\* lines 289-306: the CURRENT SESSION block
SessionBlock(current_stats, nw) ==
    IF current_stats.t # "obj" THEN Raise("AttributeError")
    ELSE LET d == current_stats.d
             i == Get(d, "input_tokens", Num(0))
             o == Get(d, "output_tokens", Num(0))
             p == fromisoformat(Get(d, "session_start", Null))
         IN  IF i.t # "num" \/ o.t # "num" THEN Raise("TypeError")
             ELSE IF Has(d, "session_start") /\ p.exc = "AttributeError"
             THEN Raise("AttributeError")
             ELSE Return([input    |-> i.n,
                          output   |-> o.n,
                          total    |-> i.n + o.n,
                          cost     |-> format_cost(calculate_cost(i.n, o.n)),
                          duration |->
                             IF ~Has(d, "session_start") THEN [shown |-> "no"]
                             ELSE IF p.exc # "none" \/ p.dt.aware
                             THEN [shown |-> "unknown"]
                             ELSE [shown |-> "yes", hours |-> nw.t - p.dt.at]])

\* lines 311-323: the block of one period
PeriodBlock(stats) ==
    IF stats.t # "obj" THEN Raise("TypeError")
    ELSE LET d == stats.d IN
         IF \E k \in {"period", "input_tokens", "output_tokens",
                      "total_tokens", "cost"} : ~Has(d, k)
         THEN Raise("KeyError")
         ELSE IF d["period"].t # "str" THEN Raise("AttributeError")
         ELSE IF d["cost"].t # "float" THEN Raise("ValueError")
         ELSE LET p == fromisoformat(Get(d, "start_time", Null)) IN
              IF Has(d, "start_time") /\ Truthy(d["start_time"])
                 /\ p.exc = "AttributeError"
              THEN Raise("AttributeError")
              ELSE Return([period |-> Capitalize(d["period"]),
                           input  |-> d["input_tokens"],
                           output |-> d["output_tokens"],
                           total  |-> d["total_tokens"],
                           cost   |-> format_cost(d["cost"]),
                           since  |->
                              IF Has(d, "start_time") /\ Truthy(d["start_time"])
                                 /\ p.exc = "none"
                              THEN [shown |-> "yes", at |-> p.dt.at]
                              ELSE [shown |-> "no"]])

\* def print_usage_report(current_stats, daily_stats, weekly_stats, monthly_stats)
\* at the hour nw
\* the report of the session block s and the period blocks ps, or the first
\* exception raised while they were printed
Blocks(s, ps) ==
    IF s.kind = "raise" THEN s
    ELSE IF \E k \in 1..3 : ps[k].kind = "raise"
    THEN ps[CHOOSE k \in 1..3 : ps[k].kind = "raise"
                                /\ \A j \in 1..(k - 1) : ps[j].kind # "raise"]
    ELSE Return([session |-> s.value, periods |-> [k \in 1..3 |-> ps[k].value]])

print_usage_report(current_stats, daily_stats, weekly_stats, monthly_stats, nw) ==
    ByValue(SessionBlock(current_stats, nw),
            <<PeriodBlock(daily_stats), PeriodBlock(weekly_stats),
              PeriodBlock(monthly_stats)>>,
            Blocks)

\* def get_claude_config(): the first of the two files that exists and parses
get_claude_config(file1, file2) ==
    IF file1.state = "json" THEN file1.doc
    ELSE IF file2.state = "json" THEN file2.doc
    ELSE Obj(EmptyDict)

\* lines 357-358: if "api_key" in config: config["api_key"] = "********"
Redact(config) ==
    CASE config.t = "obj" ->
           IF Has(config.d, "api_key")
           THEN Return(Obj(Put(config.d, "api_key", Mask)))
           ELSE Return(config)
      [] config.t = "list" ->
           IF \E k \in 1..Len(config.xs) : config.xs[k] = Text("api_key")
           THEN Raise("TypeError")
           ELSE Return(config)
      [] OTHER -> Raise("TypeError")

(***************************************************************************)
(* The program state.                                                      *)
(***************************************************************************)
VARIABLES
    args,      \* the parsed command line: [days, verbose]
    now,       \* datetime.now() of this run
    tool,      \* the condition the external tool is in
    pc,        \* where main is
    frame,     \* the running call of a stats fetcher
    cmd,       \* the command run_command has been called with
    ret,       \* what run_command returned to its caller
    proc,      \* how the last external process went
    calls,     \* the commands the running fetcher has invoked, with their output
    locals,    \* main's local variables
    printed,   \* what has been written to standard output
    exc        \* the exception that ended the run, or "none"

vars == <<args, now, tool, pc, frame, cmd, ret, proc, calls, locals, printed, exc>>

NoFrame ==
    [fn |-> "none", period |-> Text(""), start_time |-> 0, end_time |-> 0,
     at |-> "idle", result |-> Null]

\* the call get_current_session_stats(), up to its first command
EnterSession ==
    [frame |-> [NoFrame EXCEPT !.fn = "session", !.period = Text("session"),
                               !.at = "stats"],
     cmd   |-> SessionStatsCmd]

\* the call get_time_period_stats(period, start_arg, end_arg), up to its
\* first command (lines 169-194, 209)
EnterPeriod(period, start_arg, end_arg, nw) ==
    LET w == PeriodWindow(period, start_arg, end_arg, nw) IN
    [frame |-> [NoFrame EXCEPT !.fn = "period", !.period = period,
                               !.start_time = w.start_time,
                               !.end_time = w.end_time,
                               !.at = IF period \in DirectPeriods
                                      THEN "period_stats" ELSE "range_stats"],
     cmd   |-> IF period \in DirectPeriods
               THEN PeriodStatsCmd(period)
               ELSE RangeStatsCmd(Date(w.start_time), Date(w.end_time))]

NoLocals ==
    [current_stats |-> Null, daily_stats |-> Null, weekly_stats |-> Null,
     monthly_stats |-> Null, config |-> Null]
NothingPrinted == [report |-> Null, info |-> Null]

\* subprocess.run inside run_command: the process runs to its end
RunCommand ==
    /\ exc = "none" /\ cmd # NoCmd /\ ret = NoRet
    /\ \E o \in Outcomes(tool, cmd, now.t) :
       \E r \in {run_command(o.how, o.out)} :
          /\ proc' = o.how
          /\ calls' = Append(calls, [cmd |-> cmd, how |-> o.how, out |-> o.out])
          /\ exc' = r.exc
          /\ ret' = IF r.exc = "none" THEN [out |-> r.out, success |-> r.success]
                                      ELSE NoRet
    /\ UNCHANGED <<args, now, tool, pc, frame, cmd, locals, printed>>

\* the fetcher goes on after run_command returned: it returns r.value, raises
\* r.exc, or runs the next command of its chain
Continue(r, nextAt, nextCmd) ==
    /\ ret' = NoRet
    /\ exc' = r.exc
    /\ CASE r.kind = "return" ->
              /\ frame' = [frame EXCEPT !.at = "returned", !.result = r.value]
              /\ cmd' = NoCmd
         [] r.kind = "raise" ->
              /\ frame' = [frame EXCEPT !.at = "raised"]
              /\ cmd' = NoCmd
         [] OTHER ->
              /\ frame' = [frame EXCEPT !.at = nextAt]
              /\ cmd' = nextCmd
    /\ UNCHANGED <<args, now, tool, pc, proc, calls, locals, printed>>

\* get_current_session_stats, lines 82-93
SessionAfterStats ==
    /\ exc = "none" /\ frame.fn = "session" /\ frame.at = "stats" /\ ret # NoRet
    /\ \E r \in {SessionFromStats(ret, now)} :
          Continue(r, "logs", LogsCmd(SESSION_LOG_LIMIT))

\* get_current_session_stats, lines 95-140
SessionAfterLogs ==
    /\ exc = "none" /\ frame.fn = "session" /\ frame.at = "logs" /\ ret # NoRet
    /\ \E r \in {SessionFromLogs(ret, now)} :
          Continue(IF r.kind = "next" THEN Return(SessionDefault(now)) ELSE r,
                   "returned", NoCmd)

\* get_time_period_stats, lines 196-209
PeriodAfterPeriodStats ==
    /\ exc = "none" /\ frame.fn = "period" /\ frame.at = "period_stats"
    /\ ret # NoRet
    /\ \E r \in {PeriodFromStats(ret, frame)} :
          Continue(r, "range_stats",
                   RangeStatsCmd(Date(frame.start_time), Date(frame.end_time)))

\* get_time_period_stats, lines 211-237
PeriodAfterRangeStats ==
    /\ exc = "none" /\ frame.fn = "period" /\ frame.at = "range_stats"
    /\ ret # NoRet
    /\ \E r \in {PeriodFromStats(ret, frame)} :
          Continue(r, "logs", LogsCmd(LogLimit(frame.period)))

\* get_time_period_stats, lines 239-274
PeriodAfterLogs ==
    /\ exc = "none" /\ frame.fn = "period" /\ frame.at = "logs" /\ ret # NoRet
    /\ \E r \in {PeriodFromLogs(ret, frame)} : Continue(r, "returned", NoCmd)

(***************************************************************************)
(* main                                                                    *)
(***************************************************************************)
\* main calls a fetcher
Call(entry, nextPc) ==
    /\ frame' = entry.frame
    /\ cmd' = entry.cmd
    /\ calls' = <<>>
    /\ pc' = nextPc

\* line 337: current_stats = get_current_session_stats()
MainCallSession ==
    /\ exc = "none" /\ pc = "start"
    /\ Call(EnterSession, "session")
    /\ UNCHANGED <<args, now, tool, ret, proc, locals, printed, exc>>

\* lines 337-347: the session stats are back; --days decides what is fetched next
MainAfterSession ==
    /\ exc = "none" /\ pc = "session" /\ frame.at = "returned"
    /\ locals' = [locals EXCEPT !.current_stats = frame.result]
    /\ IF Truthy(args.days)
       THEN Call(EnterPeriod(Fmt("last %d days", args.days.n),
                             DateTime(FALSE, now.t - args.days.n * HoursPerDay),
                             DateTime(FALSE, now.t), now), "custom")
       ELSE Call(EnterPeriod(Text("daily"), NoTime, NoTime, now), "daily")
    /\ UNCHANGED <<args, now, tool, ret, proc, printed, exc>>

\* lines 343-344: daily_stats = weekly_stats = monthly_stats = period_stats
MainAfterCustom ==
    /\ exc = "none" /\ pc = "custom" /\ frame.at = "returned"
    /\ locals' = [locals EXCEPT !.daily_stats = frame.result,
                                !.weekly_stats = frame.result,
                                !.monthly_stats = frame.result]
    /\ pc' = "report"
    /\ frame' = NoFrame
    /\ UNCHANGED <<args, now, tool, cmd, ret, proc, calls, printed, exc>>

\* lines 347-348
MainAfterDaily ==
    /\ exc = "none" /\ pc = "daily" /\ frame.at = "returned"
    /\ locals' = [locals EXCEPT !.daily_stats = frame.result]
    /\ Call(EnterPeriod(Text("weekly"), NoTime, NoTime, now), "weekly")
    /\ UNCHANGED <<args, now, tool, ret, proc, printed, exc>>

\* lines 348-349
MainAfterWeekly ==
    /\ exc = "none" /\ pc = "weekly" /\ frame.at = "returned"
    /\ locals' = [locals EXCEPT !.weekly_stats = frame.result]
    /\ Call(EnterPeriod(Text("monthly"), NoTime, NoTime, now), "monthly")
    /\ UNCHANGED <<args, now, tool, ret, proc, printed, exc>>

\* line 349
MainAfterMonthly ==
    /\ exc = "none" /\ pc = "monthly" /\ frame.at = "returned"
    /\ locals' = [locals EXCEPT !.monthly_stats = frame.result]
    /\ pc' = "report"
    /\ frame' = NoFrame
    /\ UNCHANGED <<args, now, tool, cmd, ret, proc, calls, printed, exc>>

\* line 352: print_usage_report(...)
PrintReport ==
    /\ exc = "none" /\ pc = "report"
    /\ \E r \in {print_usage_report(locals.current_stats, locals.daily_stats,
                                    locals.weekly_stats, locals.monthly_stats, now)} :
          /\ exc' = r.exc
          /\ printed' = IF r.kind = "return"
                        THEN [printed EXCEPT !.report = r.value] ELSE printed
          /\ pc' = IF r.kind = "raise" THEN pc
                   ELSE IF args.verbose THEN "verbose" ELSE "done"
    /\ UNCHANGED <<args, now, tool, frame, cmd, ret, proc, calls, locals>>

\* lines 354-360: the configuration is read and redacted, then
\* get_claude_version() runs `claude --version`
VerboseConfig ==
    /\ exc = "none" /\ pc = "verbose"
    /\ \E file1 \in ConfigFiles, file2 \in ConfigFiles :
       \E r \in {Redact(get_claude_config(file1, file2))} :
          /\ exc' = r.exc
          /\ locals' = [locals EXCEPT !.config = r.value]
          /\ cmd' = IF r.kind = "raise" THEN NoCmd ELSE VersionCmd
          /\ pc' = IF r.kind = "raise" THEN pc ELSE "version"
    /\ calls' = <<>>
    /\ UNCHANGED <<args, now, tool, frame, ret, proc, printed>>

\* lines 360-362: the version and the configuration are printed
VerbosePrint ==
    /\ exc = "none" /\ pc = "version" /\ ret # NoRet
    /\ printed' = [printed EXCEPT !.info =
                      [version |-> IF ret.success THEN ret.out ELSE ErrorText,
                       config  |-> locals.config]]
    /\ pc' = "done"
    /\ cmd' = NoCmd
    /\ ret' = NoRet
    /\ UNCHANGED <<args, now, tool, frame, proc, calls, locals, exc>>

(***************************************************************************)
(* Specifications.                                                         *)
(***************************************************************************)
\* largest N of --days
MaxDays == 2

Idle ==
    /\ cmd = NoCmd /\ ret = NoRet /\ proc = "none" /\ calls = <<>>
    /\ locals = NoLocals /\ printed = NothingPrinted /\ exc = "none"

\* a run of main
Init ==
    /\ args \in [days : {Null} \cup {Num(n) : n \in 0..MaxDays}, verbose : BOOLEAN]
    /\ now \in NowChoices
    /\ \/ tool = Absent
       \/ \E st \in StatsOutcomes(now.t), lg \in LogsOutcomes(now.t, MaxMainLogs) :
             tool = Fixed(st, lg)
    /\ pc = "start"
    /\ frame = NoFrame
    /\ Idle

Fetch ==
    \/ RunCommand
    \/ SessionAfterStats
    \/ SessionAfterLogs
    \/ PeriodAfterPeriodStats
    \/ PeriodAfterRangeStats
    \/ PeriodAfterLogs

Next ==
    \/ Fetch
    \/ MainCallSession
    \/ MainAfterSession
    \/ MainAfterCustom
    \/ MainAfterDaily
    \/ MainAfterWeekly
    \/ MainAfterMonthly
    \/ PrintReport
    \/ VerboseConfig
    \/ VerbosePrint

Spec == Init /\ [][Next]_vars

\* the calls of the two fetchers: those main makes, and a period that is none
\* of daily, weekly, monthly with the default window
FetchCalls(nw) ==
    {EnterSession}
    \cup { EnterPeriod(p, NoTime, NoTime, nw) : p \in DirectPeriods \cup {Text("session")} }
    \cup { EnterPeriod(Fmt("last %d days", n),
                       DateTime(FALSE, nw.t - n * HoursPerDay),
                       DateTime(FALSE, nw.t), nw) : n \in 1..MaxDays }

\* one call of a fetcher, the external tool going any way at every invocation
InitFetch ==
    /\ args = [days |-> Null, verbose |-> FALSE]
    /\ now \in NowChoices
    /\ tool = Flaky
    /\ pc = "fetch"
    /\ \E entry \in FetchCalls(now) : frame = entry.frame /\ cmd = entry.cmd
    /\ ret = NoRet /\ proc = "none" /\ calls = <<>>
    /\ locals = NoLocals /\ printed = NothingPrinted /\ exc = "none"

SpecFetch == InitFetch /\ [][Fetch]_vars

\* calculate_cost on its own: the token counts a, b, c, d are in locals.tokens
InitCost ==
    /\ args = [days |-> Null, verbose |-> FALSE]
    /\ now \in NowChoices
    /\ tool = Absent
    /\ pc = "cost"
    /\ frame = NoFrame
    /\ cmd = NoCmd /\ ret = NoRet /\ proc = "none" /\ calls = <<>>
    /\ printed = NothingPrinted /\ exc = "none"
    /\ \E a \in 0..MaxTokens, b \in 0..MaxTokens, c \in 0..MaxTokens, d \in 0..MaxTokens :
          locals = [tokens |-> <<a, b, c, d>>, costs |-> <<>>]

\* the costs of (a, b), of (c, d) and of (a + c, b + d)
CalculateCost ==
    /\ pc = "cost"
    /\ LET t == locals.tokens IN
       locals' = [locals EXCEPT !.costs = <<calculate_cost(t[1], t[2]),
                                            calculate_cost(t[3], t[4]),
                                            calculate_cost(t[1] + t[3], t[2] + t[4])>>]
    /\ pc' = "done"
    /\ UNCHANGED <<args, now, tool, frame, cmd, ret, proc, calls, printed, exc>>

SpecCost == InitCost /\ [][CalculateCost]_vars

(***************************************************************************)
(* The fallback chain of a fetch (SpecFetch).                              *)
(***************************************************************************)
\* the place of a command in the chain of its fetch
Step(c) ==
    CASE c.sub = "logs"     -> 3
      [] c.scope = "period" -> 1
      [] OTHER              -> 2

\* the structured stats queries in the chain of fetch f
StatsSteps(f) ==
    IF f.fn = "period" /\ f.period \in DirectPeriods THEN {1, 2} ELSE {2}

\* the call failed: execution failure or unparseable JSON
Failed(c) == c.how # "exit0" \/ c.out.kind # "json"

\* the fields get_time_period_stats writes into the reply it returns
Overwritten(f) ==
    IF f.fn = "period"
    THEN {"period", "start_time", "end_time", "total_tokens", "cost"}
    ELSE {}

\* result is the JSON object doc with the fetch's own fields filled in
FromReply(result, doc, f) ==
    /\ result.t = "obj" /\ doc.t = "obj"
    /\ \A key \in DOMAIN doc.d :
          Has(result.d, key) /\ (key \notin Overwritten(f) => result.d[key] = doc.d[key])

\* C1: in every fetch the commands are an ordered fallback chain: no step is
\* invoked twice or out of order, the logs listing is invoked only after every
\* structured stats query of the fetch was invoked and failed, and after a
\* structured query that succeeded no later step is invoked and the fetch
\* returns that query's reply
C1_FallbackChain ==
    /\ \A j \in 1..Len(calls), k \in 1..Len(calls) :
          j < k => Step(calls[j].cmd) < Step(calls[k].cmd)
    /\ \A k \in 1..Len(calls) :
          calls[k].cmd.sub = "logs" =>
             /\ { Step(calls[j].cmd) : j \in 1..(k - 1) } = StatsSteps(frame)
             /\ \A j \in 1..(k - 1) : Failed(calls[j])
    /\ \A k \in 1..Len(calls) :
          calls[k].cmd.sub = "stats" /\ ~Failed(calls[k]) =>
             /\ k = Len(calls)
             /\ ret = NoRet /\ exc = "none" =>
                   /\ frame.at = "returned"
                   /\ FromReply(frame.result, calls[k].out.doc, frame)

\* a fetch whose first structured query failed returned the reply of its second
C1_SecondQueryWins ==
    /\ frame.at = "returned" /\ Len(calls) = 2
    /\ Failed(calls[1])
    /\ calls[2].cmd.sub = "stats" /\ ~Failed(calls[2])
    /\ FromReply(frame.result, calls[2].out.doc, frame)

(***************************************************************************)
(* calculate_cost (SpecCost).                                              *)
(***************************************************************************)
\* |x - y| <= 2^-50 * x, for binary64 x, y >= 0
WithinRounding(x, y) ==
    LET e == FMin(x.e, y.e)
        X == Shl(x.m, x.e - e)
        Y == Shl(y.m, y.e - e)
        D == IF BigCmp(X, Y) >= 0 THEN BigSub(X, Y) ELSE BigSub(Y, X)
    IN  BigCmp(Shl(D, 50), X) <= 0

\* C9 as stated: the cost of no tokens is 0 and cost(a + c, b + d) is equal to
\* cost(a, b) + cost(c, d)
C9_ExactlyAdditive ==
    pc = "done" =>
       /\ locals.tokens[1] = 0 /\ locals.tokens[2] = 0 => locals.costs[1] = FZero
       /\ locals.costs[3] = FAdd(locals.costs[1], locals.costs[2])

\* C9 amended: the cost of no tokens is 0 and cost(a + c, b + d) differs from
\* cost(a, b) + cost(c, d) by at most 2^-50 of its value
C9_AdditiveWithinRounding ==
    pc = "done" =>
       /\ locals.tokens[1] = 0 /\ locals.tokens[2] = 0 => locals.costs[1] = FZero
       /\ WithinRounding(locals.costs[3],
                         FAdd(locals.costs[1], locals.costs[2]))

\* the cost of 1 + 2 input tokens is not the sum of the costs of 1 and of 2
C9_RoundingShows ==
    /\ pc = "done" /\ locals.tokens = <<1, 0, 2, 0>>
    /\ locals.costs[3] # FAdd(locals.costs[1], locals.costs[2])
    /\ WithinRounding(locals.costs[3], FAdd(locals.costs[1], locals.costs[2]))

(***************************************************************************)
(* What a fetch returns (SpecFetch).                                       *)
(***************************************************************************)
\* the fetch returned an object whose three token counts are numbers
ReturnedCounts ==
    /\ frame.at = "returned" /\ frame.result.t = "obj"
    /\ \A key \in {"input_tokens", "output_tokens", "total_tokens"} :
          Has(frame.result.d, key) /\ frame.result.d[key].t = "num"

\* C4: every stats object a fetch returns has
\* total_tokens = input_tokens + output_tokens
C4_TotalIsSum ==
    frame.at = "returned" =>
       /\ ReturnedCounts
       /\ frame.result.d["total_tokens"].n =
             frame.result.d["input_tokens"].n + frame.result.d["output_tokens"].n

\* every command of the fetch failed, and the fetch returned
AllFailed ==
    /\ frame.at = "returned" /\ Len(calls) > 0
    /\ \A k \in 1..Len(calls) : Failed(calls[k])

ZeroCounts ==
    /\ ReturnedCounts
    /\ \A key \in {"input_tokens", "output_tokens", "total_tokens"} :
          frame.result.d[key] = Num(0)

\* d holds a non-null value under one of the keys
NonNull(d, keys) == \E key \in keys : Has(d, key) /\ d[key] # Null

\* C6 as stated: when every command of a fetch failed, the returned object has
\* zero token counts and a non-null start and a non-null end timestamp
C6_ZerosWithPair ==
    AllFailed =>
       /\ ZeroCounts
       /\ NonNull(frame.result.d, {"start_time", "session_start"})
       /\ NonNull(frame.result.d, {"end_time", "session_end"})

\* C6 amended: when every command of a fetch failed, the returned object has
\* zero token counts; a period's object carries the start_time and end_time of
\* its window, the session's object carries session_start, one hour before
\* now, and no other timestamp
C6_ZerosWithTimestamps ==
    AllFailed =>
       /\ ZeroCounts
       /\ IF frame.fn = "session"
          THEN /\ DOMAIN frame.result.d =
                     {"input_tokens", "output_tokens", "total_tokens", "session_start"}
               /\ frame.result.d["session_start"] = Iso("naive", now.t - 1)
          ELSE /\ NonNull(frame.result.d, {"start_time"})
               /\ NonNull(frame.result.d, {"end_time"})
               /\ frame.result.d["start_time"] = Iso("naive", frame.start_time)
               /\ frame.result.d["end_time"] = Iso("naive", frame.end_time)

\* the session fetch returned the zero default after its two commands failed
C6_SessionDefaulted ==
    /\ AllFailed /\ frame.fn = "session" /\ Len(calls) = 2
    /\ calls[1].how = "nonzero" /\ calls[2].out = Garbage
    /\ ZeroCounts

(***************************************************************************)
(* Log aggregation (SpecFetch).                                            *)
(***************************************************************************)
\* the fetch has gone through the log listing it was given
LogsProcessed ==
    /\ Len(calls) > 0 /\ ret = NoRet
    /\ calls[Len(calls)].cmd.sub = "logs" /\ ~Failed(calls[Len(calls)])
    /\ calls[Len(calls)].out.doc.t = "list"

Listing == calls[Len(calls)].out.doc.xs

\* the token count `field` of a log entry
Count(entry, field) ==
    IF entry.t = "obj" /\ Has(entry.d, "tokens") /\ entry.d["tokens"].t = "obj"
    THEN Get(entry.d["tokens"].d, field, Num(0)).n
    ELSE 0

\* the entry's timestamp is an ISO-8601 string
WellFormed(entry) ==
    /\ entry.t = "obj" /\ Has(entry.d, "timestamp")
    /\ entry.d["timestamp"].t = "str" /\ entry.d["timestamp"].form # "text"

\* the entry has a timestamp that is no ISO-8601 string
Malformed(entry) ==
    entry.t = "obj" /\ Has(entry.d, "timestamp") /\ ~WellFormed(entry)

\* the entry's timestamp t satisfies start_time <= t <= end_time
InWindow(entry, f) ==
    /\ WellFormed(entry)
    /\ f.start_time <= entry.d["timestamp"].at
    /\ entry.d["timestamp"].at <= f.end_time

RECURSIVE WindowSum(_, _, _)
\* the sum of `field` over the entries of xs in the window of f
WindowSum(xs, f, field) ==
    IF Len(xs) = 0 THEN 0
    ELSE (IF InWindow(Head(xs), f) THEN Count(Head(xs), field) ELSE 0)
         + WindowSum(Tail(xs), f, field)

\* C5: a period's counts aggregated from the log listing are the sums of the
\* prompt and completion counts over the entries with
\* start_time <= timestamp <= end_time
C5_WindowSums ==
    LogsProcessed /\ frame.fn = "period" /\ frame.at = "returned" =>
       /\ ReturnedCounts
       /\ frame.result.d["input_tokens"].n = WindowSum(Listing, frame, "prompt")
       /\ frame.result.d["output_tokens"].n = WindowSum(Listing, frame, "completion")

\* the entries of the listing are objects, none with a UTC offset in its timestamp
PlainListing ==
    \A k \in 1..Len(Listing) :
       /\ Listing[k].t = "obj"
       /\ WellFormed(Listing[k]) => Listing[k].d["timestamp"].form # "offset"

\* the entry is one the fetch f is to count
Countable(entry, f) ==
    /\ ~Malformed(entry)
    /\ f.fn = "period" => InWindow(entry, f)

RECURSIVE CountableSum(_, _, _)
CountableSum(xs, f, field) ==
    IF Len(xs) = 0 THEN 0
    ELSE (IF Countable(Head(xs), f) THEN Count(Head(xs), field) ELSE 0)
         + CountableSum(Tail(xs), f, field)

\* C10: in the session fetch and in the period fetch, an entry with a malformed
\* timestamp adds nothing to the counts and the entries around it are counted
C10_MalformedSkipped ==
    LogsProcessed /\ PlainListing /\ (\E k \in 1..Len(Listing) : Malformed(Listing[k])) =>
       /\ exc = "none"
       /\ ReturnedCounts
       /\ frame.result.d["input_tokens"].n = CountableSum(Listing, frame, "prompt")
       /\ frame.result.d["output_tokens"].n = CountableSum(Listing, frame, "completion")

(***************************************************************************)
(* A run of main (Spec).                                                   *)
(***************************************************************************)
\* C2: no failure is fatal: no exception ends a run of main
C2_NoFailureFatal == exc = "none"

\* C3: run_command never raises, returns (error text, False) when the process
\* failed in any way and (stdout, True) only when it exited successfully
C3_RunCommandNeverRaises ==
    /\ exc # "FileNotFoundError"
    /\ ret # NoRet =>
          /\ ret.success <=> proc = "exit0"
          /\ ~ret.success => ret.out = ErrorText

\* C7: with --days N, for every N, the three period reports are one stats
\* object whose window is the N days ending now
C7_DaysWindow ==
    args.days # Null /\ pc \in {"report", "verbose", "version", "done"} =>
       /\ locals.daily_stats = locals.weekly_stats
       /\ locals.weekly_stats = locals.monthly_stats
       /\ locals.daily_stats.t = "obj"
       /\ Get(locals.daily_stats.d, "start_time", Null)
             = Iso("naive", now.t - args.days.n * HoursPerDay)
       /\ Get(locals.daily_stats.d, "end_time", Null) = Iso("naive", now.t)

RECURSIVE Leaks(_)
\* the value shows the original value of an api_key field
Leaks(v) ==
    CASE v.t = "obj"  -> \E key \in DOMAIN v.d :
                            (key = "api_key" /\ v.d[key] = Secret) \/ Leaks(v.d[key])
      [] v.t = "list" -> \E k \in 1..Len(v.xs) : Leaks(v.xs[k])
      [] OTHER        -> FALSE

\* C8: the configuration printed in verbose mode shows the original value of
\* no api_key field
C8_ApiKeyMasked ==
    printed.info # Null => ~Leaks(printed.info.config)
====
